---- MODULE Spec2Model ----
(***************************************************************************)
(* Model of the lecture-booking bot of src/bot.py: the aiosqlite           *)
(* connection pool (DatabaseManager), the business logic (BotService) and  *)
(* the aiogram handlers registered by register_handlers.                   *)
(*                                                                         *)
(* Every inbound update is handled by its own asyncio task                 *)
(* (Dispatcher.start_polling, bot.py:543, no events isolation is           *)
(* configured at bot.py:533), so handlers of different updates, of the     *)
(* same user included, interleave at their await points.  A task slot of   *)
(* the model is one such handler invocation; its pc is the await it is     *)
(* suspended at.                                                           *)
(*                                                                         *)
(* SQLite: a connection's uncommitted INSERT/DELETE is invisible to the    *)
(* other connections and writers are serialised by the database lock, so   *)
(* a write statement and the commit that follows it are one step of the    *)
(* model (the point at which the commit becomes visible).  The bookings    *)
(* table has no UNIQUE constraint (bot.py:203-211).                        *)
(*                                                                         *)
(* The roster files lections/<direction>.txt are rewritten but never       *)
(* removed by the bot; the operator can remove one (remove_roster_file).   *)
(* The listing of lections/ is cached by the first update (lru_cache), so  *)
(* the filter of show_lectures_handler accepts the names of Directions     *)
(* throughout.                                                             *)
(* Failures of the environment are actions of their own (..._fails): an    *)
(* sqlite3.OperationalError of a statement, an OSError of the roster       *)
(* rewrite.  Telegram API errors are not modelled.  Users holds ordinary   *)
(* users; the administrators of Config.SPECIAL_USERS send updates in       *)
(* SpecSpecial only.                                                       *)
(*                                                                         *)
(* Specifications:                                                         *)
(*   Spec         every handler, updates dispatched concurrently           *)
(*   SpecSeq      the lecture flow, one update at a time; each handler     *)
(*                records what it saw when it began (tasks[t].pre)         *)
(*   SpecBooking  the booking flow (direction, number), concurrently       *)
(*   SpecFaults   booking, complete, cancel, my lectures and the failures, *)
(*                one update at a time                                     *)
(*   SpecRoster   booking, complete and cancel over any roster file        *)
(*   SpecUsers    /start and the admin listing among the lecture updates   *)
(*   SpecFiles    book links and useful information                        *)
(*   SpecMissing  the lecture flow while roster files are removed          *)
(*   SpecManage   complete and cancel of two bookings, concurrently        *)
(*   SpecSpecial  messages of ordinary users and of administrators, one    *)
(*                update at a time                                         *)
(*   SpecPool     booking and cancelling with one connection fewer than    *)
(*                handlers in flight, and the failures                     *)
(*   SpecWait     direction and number with one connection fewer than      *)
(*                handlers in flight, every ready handler being run        *)
(***************************************************************************)
EXTENDS Integers, Sequences, FiniteSets, TLC

\* ---------------------------------------------------------------- bounds
\* number of handler invocations that can be in flight at once
MaxTasks == 2
\* cap of the bookings AUTOINCREMENT counter
MaxId == 2
\* DatabaseManager(db_path, pool_size): the pool size the model runs with
pool_size == 2
\* longest roster file drawn as a start state, in lines
MaxLen == 3

\* ---------------------------------------------------------------- fixtures
Users == {1, 2}
Directions == {"A", "B"}
\* lections/A.txt and lections/B.txt as deployed; "x" is in both rosters
InitRosters == [d \in Directions |-> IF d = "A" THEN <<"x", "y">> ELSE <<"x">>]
\* the lecture names that occur in roster files
Lectures == {"x", "y"}
\* the contents a roster file can have: any lines, repeated ones included
RosterLines == UNION {[1..k -> Lectures] : k \in 0..MaxLen}
\* texts for which msg.text.isdigit() holds, as the integer int(msg.text)
Numbers == {0, 1, 2}
Actions == {"complete", "cancel"}
Tasks == 1..MaxTasks
NoDir == ""
NoLecture == ""
\* Config.SPECIAL_USERS, the administrators; Users holds none of them
SPECIAL_USERS == {473516172, 380771755}
\* everyone who can send an update: the ordinary users and the administrators
Senders == Users \cup SPECIAL_USERS
\* one ordinary user and one administrator
SomeSenders == {1, 473516172}
\* the texts a message can carry, named after the message handler whose text
\* filter accepts them ("start" is the /start command, "admin" the admin
\* panel button); "notext" is a message without text (message.text is None)
MessageTexts == {"start", "admin", "books", "book", "infos", "info", "open", "dir",
                 "num", "my", "menu", "notext"}
\* message.from_user.username or message.from_user.full_name
Nicknames == {"ann", "bob"}
\* base names of the files of books/ (*.txt) and of useful_info/ (*.txt, *.pdf)
BookNames == {"py"}
InfoNames == {"faq"}
\* file contents, character by character; " " and "\n" are whitespace
Whitespace == {" ", "\n"}
FileContents == {<<"a">>, <<" ", "a", "\n">>, <<"a", " ", "b", "\n">>}
NoFile == [exists |-> FALSE, content |-> <<>>]
\* books/py.txt, useful_info/faq.txt, useful_info/faq.pdf and the roster files
\* lections/<direction>.txt as deployed
InitFiles == [books |-> [b \in BookNames |-> [exists |-> TRUE, content |-> <<"a", "\n">>]],
              txt |-> [i \in InfoNames |-> [exists |-> TRUE, content |-> <<"a", " ", "b", "\n">>]],
              pdf |-> [i \in InfoNames |-> TRUE],
              lections |-> [d \in Directions |-> TRUE]]
\* nothing cached: get_file_base_names has not been called for the directory
NotCached == [cached |-> FALSE, names |-> {}]

\* BookingState (bot.py:337-339); None is the FSM's default state
StateNone == "None"
waiting_for_direction == "waiting_for_direction"
waiting_for_lecture == "waiting_for_lecture"

VARIABLES
    pool,       \* DatabaseManager.pool: number of idle connections in the queue
    bookings,   \* table bookings: set of rows [id, user_id, lecture, direction]
    nextId,     \* the AUTOINCREMENT counter of bookings.id
    rosters,    \* lections/<direction>.txt: the non-empty trimmed lines, in order
    fsm,        \* FSMContext storage: per user [state, direction]
    tasks,      \* handler invocations of the current burst, per task slot
    sequential, \* scheduling mode, fixed at start: TRUE = one update at a time
    users,      \* table users: set of rows [telegram_id, nickname]
    files,      \* the directories books/ and useful_info/: per base name the files
    cache,      \* lru_cache of KeyboardBuilder.get_file_base_names, per directory
    capacity    \* DatabaseManager.pool_size: the connections init_pool opened

vars == <<pool, bookings, nextId, rosters, fsm, tasks, sequential, users, files, cache,
          capacity>>

\* what the handlers of the lecture flow never touch
others == <<users, files, cache>>

\* ---------------------------------------------------------------- helpers
\* state.clear(): state None and empty data
ClearedFsm == [state |-> StateNone, dir |-> NoDir]

NoPrev == [dir |-> NoDir, n |-> 0]

\* what a handler saw when it began (recorded under sequential scheduling only)
NoPre == [bookings |-> {}, rosters |-> <<>>, fsm |-> ClearedFsm, prev |-> NoPrev,
          users |-> {}, files |-> <<>>, missed |-> "", fsms |-> <<>>]

IdleTask == [kind |-> "idle", pc |-> "idle", user |-> 0, text |-> "", dir |-> NoDir, n |-> 0,
             act |-> "", sel |-> NoLecture, nick |-> "", name |-> "", lines |-> <<>>,
             names |-> {},
             out |-> "",
             result |-> <<>>, fault |-> FALSE, free0 |-> FALSE, pre |-> NoPre]

Active(t) == tasks[t].pc \notin {"idle", "done"}

Quiescent == \A t \in Tasks : ~Active(t)

\* the except branch of book_lecture_handler only answers: the FSM entry stays
FsmAfterErrorCleared(f) == ClearedFsm

FsmAfterError(f) == f

\* 1 <= lecture_number <= len(lectures)
ValidNumberFromZero(n, lectures) == lectures # <<>> /\ 0 <= n /\ n <= Len(lectures)

ValidNumber(n, lectures) == 1 <= n /\ n <= Len(lectures)

\* lectures[lecture_number - 1]; Python's index -1 is the last element
SelectedLectureNext(n, lectures) ==
    IF n = Len(lectures) THEN lectures[1] ELSE lectures[n + 1]

SelectedLecture(n, lectures) ==
    IF n = 0 THEN lectures[Len(lectures)] ELSE lectures[n]

\* SELECT lecture FROM bookings WHERE direction = ? AND lecture = ?  (fetchone)
IsBookedNever(b, d, l) == FALSE

IsBooked(b, d, l) == \E r \in b : r.direction = d /\ r.lecture = l

\* SELECT lecture, direction FROM bookings WHERE id = ? AND user_id = ?
FindBookingAnyUser(b, id, u) == {r \in b : r.id = id}

FindBooking(b, id, u) == {r \in b : r.id = id /\ r.user_id = u}

\* lines = [line for line in lines if line.strip() != line_to_remove.strip()]
RemoveLine(lines, l) == SelectSeq(lines, LAMBDA x : x # l)

\* rows of a SELECT over bookings without ORDER BY: SQLite scans the table in
\* rowid order, and id INTEGER PRIMARY KEY is the rowid
RECURSIVE ByRowid(_)
ByRowid(rows) ==
    IF rows = {} THEN <<>>
    ELSE LET first == CHOOSE r \in rows : \A x \in rows : r.id <= x.id
         IN  <<first>> \o ByRowid(rows \ {first})

\* SELECT id, lecture, direction FROM bookings WHERE user_id = ?  (fetchall)
get_user_lectures_of_all(b, u) ==
    ByRowid({[id |-> r.id, lecture |-> r.lecture, direction |-> r.direction] : r \in b})

get_user_lectures(b, u) ==
    ByRowid({[id |-> r.id, lecture |-> r.lecture, direction |-> r.direction] :
                 r \in {x \in b : x.user_id = u}})

\* INSERT OR IGNORE INTO users (telegram_id, nickname): telegram_id is UNIQUE, a
\* row that would violate the constraint is skipped without an error
InsertOrReplace(us, id, nickname) ==
    {r \in us : r.telegram_id # id} \cup {[telegram_id |-> id, nickname |-> nickname]}

InsertOrIgnore(us, id, nickname) ==
    IF \E r \in us : r.telegram_id = id THEN us
    ELSE us \cup {[telegram_id |-> id, nickname |-> nickname]}

\* SELECT users.nickname, bookings.lecture, bookings.direction
\* FROM bookings JOIN users ON bookings.user_id = users.telegram_id
AdminRows(b, us) ==
    LET joined == ByRowid({[id |-> r.id, nickname |-> w.nickname, lecture |-> r.lecture,
                            direction |-> r.direction] :
                               <<r, w>> \in {x \in b \X us : x[1].user_id = x[2].telegram_id}})
    IN  [i \in 1..Len(joined) |-> [nickname |-> joined[i].nickname,
                                   lecture |-> joined[i].lecture,
                                   direction |-> joined[i].direction]]

\* get_available_lectures: booked_lectures = the lectures of the rows selected
\* WHERE direction = ?; one entry "<mark> <idx>. <lecture>" per roster line
get_available_lectures_any_direction(lectures, b, d) ==
    [i \in 1..Len(lectures) |->
        [booked |-> lectures[i] \in {r.lecture : r \in b},
         idx |-> i, lecture |-> lectures[i]]]

get_available_lectures(lectures, b, d) ==
    [i \in 1..Len(lectures) |->
        [booked |-> lectures[i] \in {r.lecture : r \in {x \in b : x.direction = d}},
         idx |-> i, lecture |-> lectures[i]]]

\* the book whose link the handler that ran last did not find
MissedOf(rec) ==
    IF rec.kind = "book" /\ rec.out = "NotFound" THEN rec.name ELSE ""

\* str.strip(): the leading and the trailing whitespace is dropped
RECURSIVE LStrip(_)
LStrip(s) ==
    IF s # <<>> /\ Head(s) \in Whitespace THEN LStrip(Tail(s)) ELSE s

RECURSIVE RStrip(_)
RStrip(s) ==
    IF s # <<>> /\ s[Len(s)] \in Whitespace THEN RStrip(SubSeq(s, 1, Len(s) - 1)) ELSE s

\* read_file_content_async: content = await file.read(); return content.strip()
read_file_content_raw(f) == f.content

read_file_content_async(f) == RStrip(LStrip(f.content))

NotFound == [found |-> FALSE, value |-> <<>>]

\* get_book_link: f"https://{content}" if books/<book_name>.txt exists
get_book_link(fs, book_name) ==
    IF fs.books[book_name].exists
    THEN [found |-> TRUE,
          value |-> <<"https://">> \o read_file_content_async(fs.books[book_name])]
    ELSE NotFound

\* str(info_pdf)
PdfPath(info_name) == <<"useful_info/", info_name, ".pdf">>

\* get_useful_info: ("text", content) if <info_name>.txt exists, else
\* ("pdf", path) if <info_name>.pdf exists
get_useful_info_pdf_first(fs, info_name) ==
    IF fs.pdf[info_name]
    THEN [found |-> TRUE, value |-> <<"pdf", PdfPath(info_name)>>]
    ELSE IF fs.txt[info_name].exists
    THEN [found |-> TRUE, value |-> <<"text", read_file_content_async(fs.txt[info_name])>>]
    ELSE NotFound

get_useful_info(fs, info_name) ==
    IF fs.txt[info_name].exists
    THEN [found |-> TRUE, value |-> <<"text", read_file_content_async(fs.txt[info_name])>>]
    ELSE IF fs.pdf[info_name]
    THEN [found |-> TRUE, value |-> <<"pdf", PdfPath(info_name)>>]
    ELSE NotFound

\* get_file_base_names under lru_cache: the listing of the first call is returned
\* by every later call
book_base_names(c, fs) ==
    IF c.books.cached THEN c.books.names ELSE {b \in BookNames : fs.books[b].exists}

info_base_names(c, fs) ==
    IF c.info.cached THEN c.info.names
    ELSE {i \in InfoNames : fs.txt[i].exists \/ fs.pdf[i]}

Cached(names) == [cached |-> TRUE, names |-> names]

\* lection_file.exists()
lection_file_exists_always(fs, d) == TRUE

lection_file_exists(fs, d) == fs.lections[d]

\* what a successful booking attempt leaves for the handler that runs right after it
PrevOf(rec) ==
    IF rec.kind = "num" /\ rec.out = "Success" THEN [dir |-> rec.dir, n |-> rec.n]
    ELSE NoPrev

\* A handler begins in slot t, the first free slot.  The slots of a burst (the
\* handlers that ran since the dispatcher was last idle) are kept until the
\* burst is over; under sequential scheduling a handler begins only when the
\* previous one has returned, and records what it saw.
\* the message observers of the router in the order register_handlers
\* decorates them; admin_panel_handler is registered second
RegistrationAdminLast ==
    <<"start", "books", "book", "infos", "info", "open", "dir", "num", "my", "menu", "admin">>

Registration ==
    <<"start", "admin", "books", "book", "infos", "info", "open", "dir", "num", "my", "menu">>

\* the filters of handler h pass a message of u carrying text: the two
\* decorators of admin_panel_handler register it under either filter;
\* msg.text.isdigit() is also what a message without text arrives at
Accepts(h, u, text) ==
    CASE h = "admin" -> u \in SPECIAL_USERS \/ text = "admin"
      [] h = "num"   -> text \in {"num", "notext"}
      [] OTHER       -> text = h

\* handlers are tried in registration order, the first whose filters pass
\* handles the message
Handler(u, text) ==
    LET matching == {i \in 1..Len(Registration) : Accepts(Registration[i], u, text)}
    IN  IF matching = {} THEN "unhandled"
        ELSE Registration[CHOOSE i \in matching : \A j \in matching : i <= j]

\* the handler of every message, by sender and text
Dispatch == [u \in Senders, text \in MessageTexts |-> Handler(u, text)]

\* the text of the message that started rec
TextOf(rec) == IF rec.kind = "admin" THEN rec.text ELSE rec.kind

\* rec starts the handler the dispatcher selects for its update; callback
\* queries have an observer of their own
Dispatched(u, rec) ==
    IF rec.kind = "manage" THEN TRUE
    ELSE Dispatch[u, TextOf(rec)] = (IF rec.kind = "notext" THEN "num" ELSE rec.kind)

Begin(t, u, rec) ==
    /\ sequential => Quiescent
    /\ Dispatched(u, rec)
    /\ LET free == IF Quiescent THEN Tasks ELSE {s \in Tasks : tasks[s].pc = "idle"}
           snap == IF sequential
                   THEN [bookings |-> bookings, rosters |-> rosters, fsm |-> fsm[u],
                         prev |-> PrevOf(tasks[1]), users |-> users, files |-> files,
                         missed |-> MissedOf(tasks[1]), fsms |-> fsm]
                   ELSE NoPre
       IN  /\ free # {}
           /\ t = CHOOSE s \in free : \A x \in free : s <= x
           /\ tasks' = [s \in Tasks |->
                           IF s = t THEN [rec EXCEPT !.pre = snap]
                           ELSE IF Quiescent THEN IdleTask ELSE tasks[s]]
    /\ UNCHANGED <<sequential, capacity>>

\* a handler in slot t takes a step
Step(t, rec) ==
    /\ tasks' = [tasks EXCEPT ![t] = rec]
    /\ UNCHANGED <<sequential, capacity>>

Finish(t, outcome) == [tasks[t] EXCEPT !.pc = "done", !.out = outcome]

\* ---------------------------------------------------------------- Init
\* after init_pool and init_db: a full pool, empty tables, every user in state None
\* DatabaseManager(db_path, n) after init_pool: n idle connections; the FSM
\* storage is empty, which reads as the cleared entry for each sender of S
ConstructedWith(n, S) ==
    /\ capacity = n
    /\ pool = n
    /\ bookings = {}
    /\ nextId = 1
    /\ rosters = InitRosters
    /\ fsm = [u \in S |-> ClearedFsm]
    /\ tasks = [t \in Tasks |-> IdleTask]
    /\ users = {}
    /\ files = InitFiles
    /\ cache = [books |-> NotCached, info |-> NotCached]

Constructed == ConstructedWith(pool_size, Users)

Init == Constructed /\ sequential = FALSE

\* one connection fewer than handlers that can be in flight
InitSmallPool == ConstructedWith(pool_size - 1, Users) /\ sequential = FALSE

\* the administrators send updates too, one update at a time
InitSpecial == ConstructedWith(pool_size, Senders) /\ sequential = TRUE

InitSeq == Constructed /\ sequential = TRUE

\* after user 1 booked lecture 1 and user 2 lecture 2 of direction "A"
InitBooked ==
    /\ capacity = pool_size
    /\ pool = pool_size
    /\ bookings = {[id |-> 1, user_id |-> 1, lecture |-> "x", direction |-> "A"],
                   [id |-> 2, user_id |-> 2, lecture |-> "y", direction |-> "A"]}
    /\ nextId = 3
    /\ rosters = InitRosters
    /\ fsm = [u \in Users |-> ClearedFsm]
    /\ tasks = [t \in Tasks |-> IdleTask]
    /\ users = {}
    /\ files = InitFiles
    /\ cache = [books |-> NotCached, info |-> NotCached]
    /\ sequential = FALSE

\* as InitSeq, with any content of lections/A.txt
InitRoster ==
    /\ capacity = pool_size
    /\ pool = pool_size
    /\ bookings = {}
    /\ nextId = 1
    /\ rosters \in {[InitRosters EXCEPT !["A"] = lines] : lines \in RosterLines}
    /\ fsm = [u \in Users |-> ClearedFsm]
    /\ tasks = [t \in Tasks |-> IdleTask]
    /\ users = {}
    /\ files = InitFiles
    /\ cache = [books |-> NotCached, info |-> NotCached]
    /\ sequential = TRUE

\* ---------------------------------------------------------------- handlers
\* available_lectures_handler: the keyboard is answered ...
available_lectures_handler(t, u) ==
    /\ Begin(t, u, [IdleTask EXCEPT !.kind = "open", !.pc = "open_set", !.user = u])
    /\ UNCHANGED <<pool, bookings, nextId, rosters, fsm>>
    /\ UNCHANGED others

\* ... then state.set_state(BookingState.waiting_for_direction)
available_lectures_set_state(t) ==
    /\ tasks[t].pc = "open_set"
    /\ fsm' = [fsm EXCEPT ![tasks[t].user].state = waiting_for_direction]
    /\ Step(t, Finish(t, "Menu"))
    /\ UNCHANGED <<pool, bookings, nextId, rosters>>
    /\ UNCHANGED others

\* return_to_menu_handler: answers the main menu, touches no state
return_to_menu_handler(t, u) ==
    /\ Begin(t, u, [IdleTask EXCEPT !.kind = "menu", !.pc = "done", !.user = u,
                                 !.out = "Menu"])
    /\ UNCHANGED <<pool, bookings, nextId, rosters, fsm>>
    /\ UNCHANGED others

\* show_lectures_handler: direction = message.text; get_available_lectures reads
\* the roster file
show_lectures_handler(t, u, d) ==
    /\ LET rec == [IdleTask EXCEPT !.kind = "dir", !.user = u, !.dir = d]
       IN  IF lection_file_exists(files, d)
           THEN Begin(t, u, [rec EXCEPT !.pc = "show_acquire", !.lines = rosters[d]])
           ELSE Begin(t, u, [rec EXCEPT !.pc = "done", !.out = "NotFound"])
    /\ UNCHANGED <<pool, bookings, nextId, rosters, fsm>>
    /\ UNCHANGED others

\* get_available_lectures: conn = await self.acquire()
show_lectures_acquire(t) ==
    /\ tasks[t].pc = "show_acquire"
    /\ pool > 0
    /\ pool' = pool - 1
    /\ Step(t, [tasks[t] EXCEPT !.pc = "show_select"])
    /\ UNCHANGED <<bookings, nextId, rosters, fsm>>
    /\ UNCHANGED others

\* get_available_lectures: SELECT ... fetchall, the connection is released
\* the SELECT run on a second connection taken while the first is held
show_lectures_select_nested(t) ==
    /\ tasks[t].pc = "show_select"
    /\ pool > 0
    /\ pool' = pool + 1
    /\ Step(t, [tasks[t] EXCEPT
               !.pc = "show_update", !.lines = <<>>,
               !.result = get_available_lectures(tasks[t].lines, bookings, tasks[t].dir)])
    /\ UNCHANGED <<bookings, nextId, rosters, fsm>>
    /\ UNCHANGED others

show_lectures_select(t) ==
    /\ tasks[t].pc = "show_select"
    /\ pool' = pool + 1
    /\ Step(t, [tasks[t] EXCEPT
               !.pc = "show_update", !.lines = <<>>,
               !.result = get_available_lectures(tasks[t].lines, bookings, tasks[t].dir)])
    /\ UNCHANGED <<bookings, nextId, rosters, fsm>>
    /\ UNCHANGED others

\* state.update_data(direction=direction), then the list is answered
show_lectures_update_data(t) ==
    /\ tasks[t].pc = "show_update"
    /\ fsm' = [fsm EXCEPT ![tasks[t].user].dir = tasks[t].dir]
    /\ Step(t, [tasks[t] EXCEPT !.pc = "show_set", !.result = <<>>])
    /\ UNCHANGED <<pool, bookings, nextId, rosters>>
    /\ UNCHANGED others

\* state.set_state(BookingState.waiting_for_lecture)
show_lectures_set_state(t) ==
    /\ tasks[t].pc = "show_set"
    /\ fsm' = [fsm EXCEPT ![tasks[t].user].state = waiting_for_lecture]
    /\ Step(t, Finish(t, "Shown"))
    /\ UNCHANGED <<pool, bookings, nextId, rosters>>
    /\ UNCHANGED others

\* book_lecture_handler: user_data = await state.get_data(); no direction: answer
book_lecture_handler(t, u, n) ==
    /\ LET d == fsm[u].dir
           rec == [IdleTask EXCEPT !.kind = "num", !.user = u, !.n = n, !.dir = d]
       IN  IF d = NoDir
           THEN Begin(t, u, [rec EXCEPT !.pc = "done", !.out = "NoDirection"])
           ELSE Begin(t, u, [rec EXCEPT !.pc = "book_read"])
    /\ UNCHANGED <<pool, bookings, nextId, rosters, fsm>>
    /\ UNCHANGED others

\* book_lecture: no roster file raises FileNotFoundError; else the roster is read,
\* the number validated, the lecture selected
book_lecture_read(t) ==
    /\ tasks[t].pc = "book_read"
    /\ LET lectures == rosters[tasks[t].dir]
           n == tasks[t].n
       IN  IF ~lection_file_exists(files, tasks[t].dir)
           THEN /\ Step(t, Finish(t, "NotFound"))
                /\ fsm' = [fsm EXCEPT ![tasks[t].user] = FsmAfterError(@)]
           ELSE IF ~ValidNumber(n, lectures)
           THEN /\ Step(t, Finish(t, "InvalidSelection"))
                /\ fsm' = [fsm EXCEPT ![tasks[t].user] = FsmAfterError(@)]
           ELSE /\ Step(t, [tasks[t] EXCEPT
                       !.pc = "book_acquire",
                       !.sel = SelectedLecture(n, lectures),
                       !.free0 = \A r \in bookings :
                                   ~(r.direction = tasks[t].dir /\ r.lecture = lectures[n])])
                /\ fsm' = fsm
    /\ UNCHANGED <<pool, bookings, nextId, rosters>>
    /\ UNCHANGED others

\* book_lecture: conn = await self.acquire()
book_lecture_acquire(t) ==
    /\ tasks[t].pc = "book_acquire"
    /\ pool > 0
    /\ pool' = pool - 1
    /\ Step(t, [tasks[t] EXCEPT !.pc = "book_select"])
    /\ UNCHANGED <<bookings, nextId, rosters, fsm>>
    /\ UNCHANGED others

\* book_lecture: SELECT ... fetchone; a row raises ValueError (already booked),
\* get_connection releases the connection and the handler answers
book_lecture_select(t) ==
    /\ tasks[t].pc = "book_select"
    /\ IF IsBooked(bookings, tasks[t].dir, tasks[t].sel)
       THEN /\ pool' = pool + 1
            /\ Step(t, Finish(t, "Conflict"))
            /\ fsm' = [fsm EXCEPT ![tasks[t].user] = FsmAfterError(@)]
       ELSE /\ pool' = pool
            /\ Step(t, [tasks[t] EXCEPT !.pc = "book_insert"])
            /\ fsm' = fsm
    /\ UNCHANGED <<bookings, nextId, rosters>>
    /\ UNCHANGED others

\* book_lecture: INSERT INTO bookings, commit, release; the success is answered
book_lecture_insert(t) ==
    /\ tasks[t].pc = "book_insert"
    /\ nextId <= MaxId
    /\ bookings' = bookings \cup {[id |-> nextId, user_id |-> tasks[t].user,
                                   lecture |-> tasks[t].sel,
                                   direction |-> tasks[t].dir]}
    /\ nextId' = nextId + 1
    /\ pool' = pool + 1
    /\ Step(t, [tasks[t] EXCEPT !.pc = "book_clear"])
    /\ UNCHANGED <<rosters, fsm>>
    /\ UNCHANGED others

\* book_lecture_handler: await state.clear()
book_lecture_clear(t) ==
    /\ tasks[t].pc = "book_clear"
    /\ fsm' = [fsm EXCEPT ![tasks[t].user] = ClearedFsm]
    /\ Step(t, Finish(t, "Success"))
    /\ UNCHANGED <<pool, bookings, nextId, rosters>>
    /\ UNCHANGED others

\* manage_lecture_callback_handler: action, lecture_id = call.data.split(":")
manage_lecture_callback_handler(t, u, id, a) ==
    /\ Begin(t, u, [IdleTask EXCEPT !.kind = "manage", !.pc = "manage_acquire",
                                 !.user = u, !.n = id, !.act = a])
    /\ UNCHANGED <<pool, bookings, nextId, rosters, fsm>>
    /\ UNCHANGED others

\* manage_lecture: conn = await self.acquire()
manage_lecture_acquire(t) ==
    /\ tasks[t].pc = "manage_acquire"
    /\ pool > 0
    /\ pool' = pool - 1
    /\ Step(t, [tasks[t] EXCEPT !.pc = "manage_select"])
    /\ UNCHANGED <<bookings, nextId, rosters, fsm>>
    /\ UNCHANGED others

\* manage_lecture: SELECT by id and user_id; no row raises ValueError (not found)
manage_lecture_select(t) ==
    /\ tasks[t].pc = "manage_select"
    /\ LET rows == FindBooking(bookings, tasks[t].n, tasks[t].user)
       IN  IF rows = {}
           THEN /\ pool' = pool + 1
                /\ Step(t, Finish(t, "NotFound"))
           ELSE /\ pool' = pool
                /\ LET row == CHOOSE r \in rows : TRUE
                   IN  Step(t, [tasks[t] EXCEPT !.pc = "manage_delete",
                                                !.sel = row.lecture,
                                                !.dir = row.direction])
    /\ UNCHANGED <<bookings, nextId, rosters, fsm>>
    /\ UNCHANGED others

\* manage_lecture: DELETE FROM bookings WHERE id = ? AND user_id = ?, commit, release
manage_lecture_delete_with_user(t) ==
    /\ tasks[t].pc = "manage_delete"
    /\ bookings' = {r \in bookings : ~(r.id = tasks[t].n /\ r.user_id = tasks[t].user)}
    /\ users' = {r \in users : r.telegram_id # tasks[t].user}
    /\ pool' = pool + 1
    /\ Step(t, [tasks[t] EXCEPT !.pc = "manage_read"])
    /\ UNCHANGED <<nextId, rosters, fsm, files, cache>>

manage_lecture_delete(t) ==
    /\ tasks[t].pc = "manage_delete"
    /\ bookings' = {r \in bookings : ~(r.id = tasks[t].n /\ r.user_id = tasks[t].user)}
    /\ pool' = pool + 1
    /\ Step(t, [tasks[t] EXCEPT !.pc = "manage_read"])
    /\ UNCHANGED <<nextId, rosters, fsm>>
    /\ UNCHANGED others

\* manage_lecture: if lection_file.exists(), remove_line_from_file reads the lines
\* (lines = await read_lines_async(file_path)); else the result is answered
manage_lecture_read(t) ==
    /\ tasks[t].pc = "manage_read"
    /\ IF lection_file_exists(files, tasks[t].dir)
       THEN Step(t, [tasks[t] EXCEPT !.pc = "manage_write",
                                     !.lines = rosters[tasks[t].dir]])
       ELSE Step(t, Finish(t, IF tasks[t].act = "complete" THEN "Completed"
                              ELSE "Cancelled"))
    /\ UNCHANGED <<pool, bookings, nextId, rosters, fsm>>
    /\ UNCHANGED others

\* remove_line_from_file: the filtered lines are written; the result is answered
manage_lecture_write_clears(t) ==
    /\ tasks[t].pc = "manage_write"
    /\ rosters' = [rosters EXCEPT ![tasks[t].dir] = RemoveLine(tasks[t].lines, tasks[t].sel)]
    /\ fsm' = [fsm EXCEPT ![tasks[t].user] = ClearedFsm]
    /\ Step(t, [Finish(t, IF tasks[t].act = "complete" THEN "Completed" ELSE "Cancelled")
                   EXCEPT !.lines = <<>>])
    /\ UNCHANGED <<pool, bookings, nextId>>
    /\ UNCHANGED others

manage_lecture_write(t) ==
    /\ tasks[t].pc = "manage_write"
    /\ rosters' = [rosters EXCEPT ![tasks[t].dir] = RemoveLine(tasks[t].lines, tasks[t].sel)]
    /\ Step(t, [Finish(t, IF tasks[t].act = "complete" THEN "Completed" ELSE "Cancelled")
                   EXCEPT !.lines = <<>>])
    /\ UNCHANGED <<pool, bookings, nextId, fsm>>
    /\ UNCHANGED others

\* remove_line_from_file raises OSError: aiofiles.open(file_path, "w") fails and
\* the file is as it was, or the write after it fails and the file stays
\* truncated.  manage_lecture has no handler for it, the bookings row is deleted
\* and committed; manage_lecture_callback_handler logs and answers the alert.
manage_lecture_write_rolls_back(t) ==
    /\ tasks[t].pc = "manage_write"
    /\ rosters' \in {rosters, [rosters EXCEPT ![tasks[t].dir] = <<>>]}
    /\ bookings' = bookings \cup {[id |-> tasks[t].n, user_id |-> tasks[t].user,
                                   lecture |-> tasks[t].sel,
                                   direction |-> tasks[t].dir]}
    /\ Step(t, [Finish(t, "Error") EXCEPT !.lines = <<>>, !.fault = TRUE])
    /\ UNCHANGED <<pool, nextId, fsm>>
    /\ UNCHANGED others

manage_lecture_write_fails(t) ==
    /\ tasks[t].pc = "manage_write"
    /\ rosters' \in {rosters, [rosters EXCEPT ![tasks[t].dir] = <<>>]}
    /\ Step(t, [Finish(t, "Error") EXCEPT !.lines = <<>>, !.fault = TRUE])
    /\ UNCHANGED <<pool, bookings, nextId, fsm>>
    /\ UNCHANGED others

\* book_lecture: the INSERT or the commit raises sqlite3.OperationalError;
\* get_connection logs, releases the connection and re-raises;
\* book_lecture_handler catches FileNotFoundError and ValueError only
\* the failing INSERT leaving without the finally clause of get_connection
book_lecture_insert_fails_keeps(t) ==
    /\ tasks[t].pc = "book_insert"
    /\ pool' = pool
    /\ Step(t, [Finish(t, "Unhandled") EXCEPT !.fault = TRUE])
    /\ UNCHANGED <<bookings, nextId, rosters, fsm>>
    /\ UNCHANGED others

book_lecture_insert_fails(t) ==
    /\ tasks[t].pc = "book_insert"
    /\ pool' = pool + 1
    /\ Step(t, [Finish(t, "Unhandled") EXCEPT !.fault = TRUE])
    /\ UNCHANGED <<bookings, nextId, rosters, fsm>>
    /\ UNCHANGED others

\* an update without text (a photo, a sticker) reaches the filter
\* lambda msg: msg.text.isdigit() of book_lecture_handler: None has no isdigit,
\* the AttributeError leaves the dispatcher without an answer
book_lecture_filter_no_text(t, u) ==
    /\ Begin(t, u, [IdleTask EXCEPT !.kind = "notext", !.pc = "done", !.user = u,
                                 !.out = "Unhandled", !.fault = TRUE])
    /\ UNCHANGED <<pool, bookings, nextId, rosters, fsm>>
    /\ UNCHANGED others

\* my_lectures_handler: lectures = await bot_service.get_user_lectures(user_id)
my_lectures_handler(t, u) ==
    /\ Begin(t, u, [IdleTask EXCEPT !.kind = "my", !.pc = "my_acquire", !.user = u])
    /\ UNCHANGED <<pool, bookings, nextId, rosters, fsm>>
    /\ UNCHANGED others

\* get_user_lectures: conn = await self.acquire()
my_lectures_acquire(t) ==
    /\ tasks[t].pc = "my_acquire"
    /\ pool > 0
    /\ pool' = pool - 1
    /\ Step(t, [tasks[t] EXCEPT !.pc = "my_select"])
    /\ UNCHANGED <<bookings, nextId, rosters, fsm>>
    /\ UNCHANGED others

\* get_user_lectures: SELECT ... fetchall, release; the list (or the notice that
\* there is none) is answered
my_lectures_select(t) ==
    /\ tasks[t].pc = "my_select"
    /\ pool' = pool + 1
    /\ LET rows == get_user_lectures(bookings, tasks[t].user)
       IN  Step(t, [Finish(t, IF rows = <<>> THEN "NoLectures" ELSE "Listed")
                       EXCEPT !.result = rows])
    /\ UNCHANGED <<bookings, nextId, rosters, fsm>>
    /\ UNCHANGED others

\* get_user_lectures: the SELECT raises sqlite3.OperationalError; the connection
\* is released; my_lectures_handler has no try block
my_lectures_select_fails(t) ==
    /\ tasks[t].pc = "my_select"
    /\ pool' = pool + 1
    /\ Step(t, [Finish(t, "Unhandled") EXCEPT !.fault = TRUE])
    /\ UNCHANGED <<bookings, nextId, rosters, fsm>>
    /\ UNCHANGED others

\* start_handler: await bot_service.register_user(message)
start_handler(t, u, nickname) ==
    /\ Begin(t, u, [IdleTask EXCEPT !.kind = "start", !.pc = "register_acquire",
                                 !.user = u, !.nick = nickname])
    /\ UNCHANGED <<pool, bookings, nextId, rosters, fsm>>
    /\ UNCHANGED others

\* register_user: conn = await self.acquire()
register_user_acquire(t) ==
    /\ tasks[t].pc = "register_acquire"
    /\ pool > 0
    /\ pool' = pool - 1
    /\ Step(t, [tasks[t] EXCEPT !.pc = "register_insert"])
    /\ UNCHANGED <<bookings, nextId, rosters, fsm>>
    /\ UNCHANGED others

\* register_user: INSERT OR IGNORE, commit, release; the greeting is answered
register_user_insert(t) ==
    /\ tasks[t].pc = "register_insert"
    /\ users' = InsertOrIgnore(users, tasks[t].user, tasks[t].nick)
    /\ pool' = pool + 1
    /\ Step(t, Finish(t, "Welcome"))
    /\ UNCHANGED <<bookings, nextId, rosters, fsm, files, cache>>

\* admin_panel_handler, on the button text, whoever sends it
admin_panel_handler(t, u, text) ==
    /\ Begin(t, u, [IdleTask EXCEPT !.kind = "admin", !.pc = "admin_acquire", !.user = u,
                                 !.text = text])
    /\ UNCHANGED <<pool, bookings, nextId, rosters, fsm>>
    /\ UNCHANGED others

\* admin_panel_handler: conn = await self.acquire()
admin_panel_acquire(t) ==
    /\ tasks[t].pc = "admin_acquire"
    /\ pool > 0
    /\ pool' = pool - 1
    /\ Step(t, [tasks[t] EXCEPT !.pc = "admin_select"])
    /\ UNCHANGED <<bookings, nextId, rosters, fsm>>
    /\ UNCHANGED others

\* admin_panel_handler: SELECT ... JOIN ... fetchall, release; the list is answered
admin_panel_select(t) ==
    /\ tasks[t].pc = "admin_select"
    /\ pool' = pool + 1
    /\ LET rows == AdminRows(bookings, users)
       IN  Step(t, [Finish(t, IF rows = <<>> THEN "NoBookings" ELSE "AllBookings")
                       EXCEPT !.result = rows])
    /\ UNCHANGED <<bookings, nextId, rosters, fsm>>
    /\ UNCHANGED others

\* book_links_handler: build_keyboard lists books/ through get_file_base_names
book_links_handler(t, u) ==
    /\ Begin(t, u, [IdleTask EXCEPT !.kind = "books", !.pc = "done", !.user = u,
                                 !.out = "Menu",
                                 !.names = book_base_names(cache, files)])
    /\ cache' = [cache EXCEPT !.books = Cached(book_base_names(cache, files))]
    /\ UNCHANGED <<pool, bookings, nextId, rosters, fsm, users, files>>

\* a text reaches the filter of send_book_link_handler: a base name of books/
\* starts the handler, any other text goes on to the filter of
\* send_useful_info_handler and, not being a name of that listing either, to
\* filters that do not match it
send_book_link_handler(t, u, book_name) ==
    /\ LET names == book_base_names(cache, files)
           rec == [IdleTask EXCEPT !.kind = "book", !.user = u, !.name = book_name]
       IN  IF book_name \in names
           THEN /\ Begin(t, u, [rec EXCEPT !.pc = "book_link"])
                /\ cache' = [cache EXCEPT !.books = Cached(names)]
           ELSE /\ Begin(t, u, [rec EXCEPT !.pc = "done", !.out = "Ignored"])
                /\ cache' = [books |-> Cached(names),
                             info |-> Cached(info_base_names(cache, files))]
    /\ UNCHANGED <<pool, bookings, nextId, rosters, fsm, users, files>>

\* get_book_link; the link, or "book not found" on FileNotFoundError, is answered
send_book_link_answer(t) ==
    /\ tasks[t].pc = "book_link"
    /\ LET link == get_book_link(files, tasks[t].name)
       IN  Step(t, [Finish(t, IF link.found THEN "Link" ELSE "NotFound")
                       EXCEPT !.result = link.value])
    /\ UNCHANGED <<pool, bookings, nextId, rosters, fsm>>
    /\ UNCHANGED others

\* useful_info_handler: the text has passed the filter of send_book_link_handler;
\* build_keyboard lists useful_info/
useful_info_handler(t, u) ==
    /\ Begin(t, u, [IdleTask EXCEPT !.kind = "infos", !.pc = "done", !.user = u,
                                 !.out = "Menu",
                                 !.names = info_base_names(cache, files)])
    /\ cache' = [books |-> Cached(book_base_names(cache, files)),
                 info |-> Cached(info_base_names(cache, files))]
    /\ UNCHANGED <<pool, bookings, nextId, rosters, fsm, users, files>>

\* a text that is no base name of books/ reaches the filter of
\* send_useful_info_handler
send_useful_info_handler(t, u, info_name) ==
    /\ info_name \notin book_base_names(cache, files)
    /\ LET names == info_base_names(cache, files)
           rec == [IdleTask EXCEPT !.kind = "info", !.user = u, !.name = info_name]
       IN  IF info_name \in names
           THEN Begin(t, u, [rec EXCEPT !.pc = "info_get"])
           ELSE Begin(t, u, [rec EXCEPT !.pc = "done", !.out = "Ignored"])
    /\ cache' = [books |-> Cached(book_base_names(cache, files)),
                 info |-> Cached(info_base_names(cache, files))]
    /\ UNCHANGED <<pool, bookings, nextId, rosters, fsm, users, files>>

\* get_useful_info; the text, the document, or "information not found" is answered
send_useful_info_answer(t) ==
    /\ tasks[t].pc = "info_get"
    /\ LET info == get_useful_info(files, tasks[t].name)
       IN  Step(t, [Finish(t, IF ~info.found THEN "NotFound"
                              ELSE IF info.value[1] = "text" THEN "Text" ELSE "Document")
                       EXCEPT !.result = info.value])
    /\ UNCHANGED <<pool, bookings, nextId, rosters, fsm>>
    /\ UNCHANGED others

\* the operator of the bot edits books/ and useful_info/ while the bot runs
write_book_file(book_name, content) ==
    /\ sequential => Quiescent
    /\ files' = [files EXCEPT !.books[book_name] = [exists |-> TRUE, content |-> content]]
    /\ UNCHANGED <<pool, bookings, nextId, rosters, fsm, tasks, sequential, capacity, users,
                 cache>>

remove_book_file(book_name) ==
    /\ sequential => Quiescent
    /\ files.books[book_name].exists
    /\ files' = [files EXCEPT !.books[book_name] = NoFile]
    /\ UNCHANGED <<pool, bookings, nextId, rosters, fsm, tasks, sequential, capacity, users,
                 cache>>

write_info_file(info_name, content) ==
    /\ sequential => Quiescent
    /\ files' = [files EXCEPT !.txt[info_name] = [exists |-> TRUE, content |-> content]]
    /\ UNCHANGED <<pool, bookings, nextId, rosters, fsm, tasks, sequential, capacity, users,
                 cache>>

remove_info_file(info_name) ==
    /\ sequential => Quiescent
    /\ files.txt[info_name].exists
    /\ files' = [files EXCEPT !.txt[info_name] = NoFile]
    /\ UNCHANGED <<pool, bookings, nextId, rosters, fsm, tasks, sequential, capacity, users,
                 cache>>

put_info_pdf(info_name) ==
    /\ sequential => Quiescent
    /\ ~files.pdf[info_name]
    /\ files' = [files EXCEPT !.pdf[info_name] = TRUE]
    /\ UNCHANGED <<pool, bookings, nextId, rosters, fsm, tasks, sequential, capacity, users,
                 cache>>

remove_info_pdf(info_name) ==
    /\ sequential => Quiescent
    /\ files.pdf[info_name]
    /\ files' = [files EXCEPT !.pdf[info_name] = FALSE]
    /\ UNCHANGED <<pool, bookings, nextId, rosters, fsm, tasks, sequential, capacity, users,
                 cache>>

\* the operator of the bot removes lections/<direction>.txt while the bot runs
remove_roster_file(d) ==
    /\ sequential => Quiescent
    /\ files.lections[d]
    /\ files' = [files EXCEPT !.lections[d] = FALSE]
    /\ rosters' = [rosters EXCEPT ![d] = <<>>]
    /\ UNCHANGED <<pool, bookings, nextId, fsm, tasks, sequential, capacity, users,
                 cache>>

\* ---------------------------------------------------------------- Next
\* the lecture flow: directions, rosters, booking, complete and cancel
NextLectures ==
    \E t \in Tasks :
        \/ \E u \in Users : available_lectures_handler(t, u)
        \/ available_lectures_set_state(t)
        \/ \E u \in Users : return_to_menu_handler(t, u)
        \/ \E u \in Users, d \in Directions : show_lectures_handler(t, u, d)
        \/ show_lectures_acquire(t)
        \/ show_lectures_select(t)
        \/ show_lectures_update_data(t)
        \/ show_lectures_set_state(t)
        \/ \E u \in Users, n \in Numbers : book_lecture_handler(t, u, n)
        \/ book_lecture_read(t)
        \/ book_lecture_acquire(t)
        \/ book_lecture_select(t)
        \/ book_lecture_insert(t)
        \/ book_lecture_clear(t)
        \/ \E u \in Users, id \in 1..MaxId, a \in Actions :
               manage_lecture_callback_handler(t, u, id, a)
        \/ manage_lecture_acquire(t)
        \/ manage_lecture_select(t)
        \/ manage_lecture_delete(t)
        \/ manage_lecture_read(t)
        \/ manage_lecture_write(t)

\* the booking flow alone (a direction is chosen, a number is sent), concurrently
NextBooking ==
    \E t \in Tasks :
        \/ \E u \in Users, d \in Directions : show_lectures_handler(t, u, d)
        \/ show_lectures_acquire(t)
        \/ show_lectures_select(t)
        \/ show_lectures_update_data(t)
        \/ show_lectures_set_state(t)
        \/ \E u \in Users, n \in Numbers : book_lecture_handler(t, u, n)
        \/ book_lecture_read(t)
        \/ book_lecture_acquire(t)
        \/ book_lecture_select(t)
        \/ book_lecture_insert(t)
        \/ book_lecture_clear(t)

\* complete and cancel alone
NextManage ==
    \E t \in Tasks :
        \/ \E u \in Users, id \in 1..MaxId, a \in Actions :
               manage_lecture_callback_handler(t, u, id, a)
        \/ manage_lecture_acquire(t)
        \/ manage_lecture_select(t)
        \/ manage_lecture_delete(t)
        \/ manage_lecture_read(t)
        \/ manage_lecture_write(t)

\* the user's own bookings, and the failures of the store and of the roster file
NextFaults ==
    \E t \in Tasks :
        \/ manage_lecture_write_fails(t)
        \/ book_lecture_insert_fails(t)
        \/ \E u \in Users : book_lecture_filter_no_text(t, u)
        \/ \E u \in Users : my_lectures_handler(t, u)
        \/ my_lectures_acquire(t)
        \/ my_lectures_select(t)
        \/ my_lectures_select_fails(t)

\* /start and the admin listing
NextUsers ==
    \E t \in Tasks :
        \/ \E u \in Users, nickname \in Nicknames : start_handler(t, u, nickname)
        \/ register_user_acquire(t)
        \/ register_user_insert(t)
        \/ \E u \in Users : admin_panel_handler(t, u, "admin")
        \/ admin_panel_acquire(t)
        \/ admin_panel_select(t)

\* every kind of update of the lecture flow, for the one lecture of direction "B"
NextOneLecture ==
    \E t \in Tasks :
        \/ \E u \in Users : available_lectures_handler(t, u)
        \/ available_lectures_set_state(t)
        \/ \E u \in Users : return_to_menu_handler(t, u)
        \/ \E u \in Users : show_lectures_handler(t, u, "B")
        \/ show_lectures_acquire(t)
        \/ show_lectures_select(t)
        \/ show_lectures_update_data(t)
        \/ show_lectures_set_state(t)
        \/ \E u \in Users : book_lecture_handler(t, u, 1)
        \/ book_lecture_read(t)
        \/ book_lecture_acquire(t)
        \/ book_lecture_select(t)
        \/ book_lecture_insert(t)
        \/ book_lecture_clear(t)
        \/ \E u \in Users, a \in Actions : manage_lecture_callback_handler(t, u, 1, a)
        \/ manage_lecture_acquire(t)
        \/ manage_lecture_select(t)
        \/ manage_lecture_delete(t)
        \/ manage_lecture_read(t)
        \/ manage_lecture_write(t)
        \/ \E u \in Users : my_lectures_handler(t, u)
        \/ my_lectures_acquire(t)
        \/ my_lectures_select(t)

\* book links and useful information, and the edits of their directories
NextFiles ==
    \/ \E t \in Tasks :
        \/ \E u \in Users : book_links_handler(t, u)
        \/ \E u \in Users, b \in BookNames : send_book_link_handler(t, u, b)
        \/ send_book_link_answer(t)
        \/ \E u \in Users : useful_info_handler(t, u)
        \/ \E u \in Users, i \in InfoNames : send_useful_info_handler(t, u, i)
        \/ send_useful_info_answer(t)
    \/ \E b \in BookNames, c \in FileContents : write_book_file(b, c)
    \/ \E b \in BookNames : remove_book_file(b)
    \/ \E i \in InfoNames, c \in FileContents : write_info_file(i, c)
    \/ \E i \in InfoNames : remove_info_file(i)
    \/ \E i \in InfoNames : put_info_pdf(i)
    \/ \E i \in InfoNames : remove_info_pdf(i)

\* a roster file disappears
NextMissing == \E d \in Directions : remove_roster_file(d)

\* the messages of an ordinary user and of an administrator: /start, any text
\* to the admin panel, and the lecture flow over direction "B", lecture 1
NextSpecial ==
    \E t \in Tasks :
        \/ \E u \in SomeSenders, nickname \in Nicknames : start_handler(t, u, nickname)
        \/ register_user_acquire(t)
        \/ register_user_insert(t)
        \/ \E u \in SomeSenders, text \in MessageTexts : admin_panel_handler(t, u, text)
        \/ admin_panel_acquire(t)
        \/ admin_panel_select(t)
        \/ \E u \in SomeSenders : available_lectures_handler(t, u)
        \/ available_lectures_set_state(t)
        \/ \E u \in SomeSenders : return_to_menu_handler(t, u)
        \/ \E u \in SomeSenders : show_lectures_handler(t, u, "B")
        \/ show_lectures_acquire(t)
        \/ show_lectures_select(t)
        \/ show_lectures_update_data(t)
        \/ show_lectures_set_state(t)
        \/ \E u \in SomeSenders : book_lecture_handler(t, u, 1)
        \/ book_lecture_read(t)
        \/ book_lecture_acquire(t)
        \/ book_lecture_select(t)
        \/ book_lecture_insert(t)
        \/ book_lecture_clear(t)
        \/ \E u \in SomeSenders : book_lecture_filter_no_text(t, u)
        \/ \E u \in SomeSenders : my_lectures_handler(t, u)
        \/ my_lectures_acquire(t)
        \/ my_lectures_select(t)

\* the steps of the handler running in slot t, from its first await on
Run(t) ==
    \/ show_lectures_acquire(t)
    \/ show_lectures_select(t)
    \/ show_lectures_update_data(t)
    \/ show_lectures_set_state(t)
    \/ book_lecture_read(t)
    \/ book_lecture_acquire(t)
    \/ book_lecture_select(t)
    \/ book_lecture_insert(t)
    \/ book_lecture_insert_fails(t)
    \/ book_lecture_clear(t)

\* direction "B" and lecture 1 arriving at any time
NextWait ==
    \E t \in Tasks :
        \/ \E u \in Users : show_lectures_handler(t, u, "B")
        \/ \E u \in Users : book_lecture_handler(t, u, 1)
        \/ Run(t)

\* direction "B", lecture 1, user 1 cancelling booking 1, and the failures
NextPool ==
    \/ NextWait
    \/ \E t \in Tasks :
          \/ manage_lecture_write_fails(t)
          \/ manage_lecture_callback_handler(t, 1, 1, "cancel")
          \/ manage_lecture_acquire(t)
          \/ manage_lecture_select(t)
          \/ manage_lecture_delete(t)
          \/ manage_lecture_read(t)
          \/ manage_lecture_write(t)

Next == NextLectures \/ NextFaults \/ NextUsers \/ NextFiles \/ NextMissing

Spec == Init /\ [][Next]_vars

\* the handlers of the lecture flow, one update at a time
SpecSeq == InitSeq /\ [][NextLectures]_vars

\* /start and the admin listing among the updates of the lecture flow, one update
\* at a time
SpecUsers == InitSeq /\ [][NextUsers \/ NextOneLecture]_vars

\* complete and cancel of two bookings of one direction, concurrently
SpecManage == InitBooked /\ [][NextManage]_vars

\* the lecture flow for one lecture while roster files disappear, one update or
\* removal at a time
SpecMissing == InitSeq /\ [][NextOneLecture \/ NextMissing]_vars

\* book links and useful information, one update or edit at a time
SpecFiles == InitSeq /\ [][NextFiles]_vars

\* booking, complete and cancel over any roster file, one update at a time
SpecRoster == InitRoster /\ [][NextBooking \/ NextManage]_vars

\* booking, complete and cancel with the user's own bookings and the failures,
\* one update at a time
SpecFaults == InitSeq /\ [][NextBooking \/ NextManage \/ NextFaults]_vars

\* the booking flow alone, concurrently
SpecBooking == Init /\ [][NextBooking]_vars
SpecSpecial == InitSpecial /\ [][NextSpecial]_vars
SpecPool == InitSmallPool /\ [][NextPool]_vars
\* the event loop runs every task that is ready; asyncio.Queue wakes the
\* tasks waiting in get() in the order they arrived
SpecWait == InitSmallPool /\ [][NextWait]_vars /\ \A t \in Tasks : WF_vars(Run(t))

TypeOK ==
    /\ pool \in 0..pool_size
    /\ nextId \in 1..(MaxId + 1)
    /\ \A r \in bookings : r.id \in 1..MaxId /\ r.user_id \in Users
    /\ \A u \in Users : fsm[u].state \in {StateNone, waiting_for_direction, waiting_for_lecture}

\* ---------------------------------------------------------------- properties

\* the live rows that book lecture l of direction d
Rows(b, d, l) == {r \in b : r.direction = d /\ r.lecture = l}

Done(t) == tasks[t].pc = "done"

\* a booking attempt (a numeric message) that has returned
Attempt(t) == Done(t) /\ tasks[t].kind = "num"

\* the user was in AwaitingLectureNumber{direction} when the handler began
WasAwaitingLecture(t) ==
    tasks[t].pre.fsm.state = waiting_for_lecture /\ tasks[t].pre.fsm.dir # NoDir

\* the number is an index of the roster of the pending direction as the handler saw it
InRoster(t) ==
    /\ tasks[t].pre.fsm.dir # NoDir
    /\ tasks[t].n \in 1..Len(tasks[t].pre.rosters[tasks[t].pre.fsm.dir])

\* the lecture at that index
Chosen(t) == tasks[t].pre.rosters[tasks[t].pre.fsm.dir][tasks[t].n]

\* C1: in every reachable state every (direction, lecture) pair has at most one
\* live row in bookings, also when booking attempts of different users interleave.
C1_AtMostOneLiveBooking ==
    \A r1 \in bookings, r2 \in bookings :
        (r1.direction = r2.direction /\ r1.lecture = r2.lecture) => r1 = r2

\* the attempts of the burst that resolved lecture l of direction d while it was unbooked
Racers(d, l) ==
    {t \in Tasks : Attempt(t) /\ tasks[t].dir = d /\ tasks[t].sel = l /\ tasks[t].free0}

\* C2: when K >= 2 booking attempts for the same (direction, lecture), launched
\* concurrently while the lecture is unbooked, have all returned, exactly one of
\* them returned success and the other K-1 ended with Conflict.
C2_OneSuccessRestConflict ==
    Quiescent =>
        \A d \in Directions, l \in Lectures :
            Cardinality(Racers(d, l)) >= 2 =>
                /\ Cardinality({t \in Racers(d, l) : tasks[t].out = "Success"}) = 1
                /\ \A t \in Racers(d, l) : tasks[t].out \in {"Success", "Conflict"}

\* C3: a booking attempt for (D, N) whose lecture is unbooked returns success, and
\* the attempt for the same (D, N) that runs right after it ends with Conflict and
\* leaves exactly one booking row for that lecture.
C3_SuccessThenConflict ==
    \A t \in Tasks :
        (Attempt(t) /\ InRoster(t)) =>
            /\ Rows(tasks[t].pre.bookings, tasks[t].dir, Chosen(t)) = {}
                   => tasks[t].out = "Success"
            /\ tasks[t].pre.prev = [dir |-> tasks[t].dir, n |-> tasks[t].n]
                   => /\ tasks[t].out = "Conflict"
                      /\ Cardinality(Rows(bookings, tasks[t].dir, Chosen(t))) = 1

C3_Witness ==
    \E t \in Tasks :
        /\ Attempt(t)
        /\ tasks[t].pre.prev = [dir |-> tasks[t].dir, n |-> tasks[t].n]
        /\ tasks[t].out = "Conflict"
        /\ Cardinality(Rows(bookings, tasks[t].dir, tasks[t].sel)) = 1

\* C4: for every user at most one handler invocation is in progress at any time.
C4_OneTransitionPerUser ==
    \A u \in Users : Cardinality({t \in Tasks : Active(t) /\ tasks[t].user = u}) <= 1

\* C5: a numeric message received while the user is Idle or AwaitingDirection
\* inserts no booking row and leaves the user's conversation state as it was.
C5_NumberIgnoredOutsideAwaitingLecture ==
    \A t \in Tasks :
        (Attempt(t) /\ tasks[t].pre.fsm.state \in {StateNone, waiting_for_direction}) =>
            /\ bookings = tasks[t].pre.bookings
            /\ fsm[tasks[t].user] = tasks[t].pre.fsm

\* C6: a return-to-menu event leaves the user in Idle with no pending direction,
\* whatever the conversation state was.
C6_ReturnToMenuResets ==
    \A t \in Tasks :
        (Done(t) /\ tasks[t].kind = "menu") => fsm[tasks[t].user] = ClearedFsm

\* C7: a user in AwaitingLectureNumber{direction} who submits an N within the
\* roster whose lecture roster[N-1] is unbooked gets exactly one new booking row
\* (user, roster[N-1], direction), roster[N-1] as the result, and ends in Idle with
\* the pending direction cleared.
C7_ValidNumberBooks ==
    \A t \in Tasks :
        (/\ Attempt(t) /\ WasAwaitingLecture(t) /\ InRoster(t)
         /\ Rows(tasks[t].pre.bookings, tasks[t].pre.fsm.dir, Chosen(t)) = {}) =>
            /\ tasks[t].out = "Success"
            /\ tasks[t].sel = Chosen(t)
            /\ \E r \in bookings :
                   /\ r.user_id = tasks[t].user
                   /\ r.lecture = Chosen(t)
                   /\ r.direction = tasks[t].pre.fsm.dir
                   /\ r \notin tasks[t].pre.bookings
                   /\ bookings = tasks[t].pre.bookings \cup {r}
            /\ fsm[tasks[t].user] = ClearedFsm

C7_Witness ==
    \E t \in Tasks :
        /\ Attempt(t) /\ WasAwaitingLecture(t) /\ InRoster(t)
        /\ tasks[t].n = 2
        /\ tasks[t].out = "Success"
        /\ fsm[tasks[t].user] = ClearedFsm

\* C8: a user in AwaitingLectureNumber{direction} who submits an N < 1 or
\* N > len(roster) gets InvalidSelection; no booking row is inserted and the
\* conversation state and pending direction stay as they were.
C8_OutOfRangeRejected ==
    \A t \in Tasks :
        (Attempt(t) /\ WasAwaitingLecture(t) /\ ~InRoster(t)) =>
            /\ tasks[t].out = "InvalidSelection"
            /\ bookings = tasks[t].pre.bookings
            /\ fsm[tasks[t].user] = tasks[t].pre.fsm

C8_Witness ==
    \E t \in Tasks :
        /\ Attempt(t) /\ WasAwaitingLecture(t)
        /\ tasks[t].n > Len(rosters[tasks[t].dir])
        /\ tasks[t].out = "InvalidSelection"
        /\ fsm[tasks[t].user].state = waiting_for_lecture

\* C9: a booking attempt that ends with Conflict found the lecture booked, leaves
\* the bookings table exactly as it was before the attempt, and leaves the user in
\* AwaitingLectureNumber with the same pending direction.
C9_ConflictChangesNothing ==
    \A t \in Tasks :
        (Attempt(t) /\ WasAwaitingLecture(t) /\ tasks[t].out = "Conflict") =>
            /\ Rows(tasks[t].pre.bookings, tasks[t].dir, tasks[t].sel) # {}
            /\ bookings = tasks[t].pre.bookings
            /\ fsm[tasks[t].user] = tasks[t].pre.fsm

C9_Witness ==
    \E t \in Tasks :
        /\ Attempt(t) /\ WasAwaitingLecture(t) /\ tasks[t].out = "Conflict"
        /\ bookings # {}
        /\ fsm[tasks[t].user] = [state |-> waiting_for_lecture, dir |-> tasks[t].dir]

\* C10: manageBooking(U, id, action) for a booking id that exists and is owned by
\* another user V fails with NotFound and leaves V's row and the rosters unchanged.
C10_ForeignBookingNotFound ==
    \A t \in Tasks :
        (/\ Done(t) /\ tasks[t].kind = "manage"
         /\ \E r \in tasks[t].pre.bookings : r.id = tasks[t].n /\ r.user_id # tasks[t].user) =>
            /\ tasks[t].out = "NotFound"
            /\ bookings = tasks[t].pre.bookings
            /\ rosters = tasks[t].pre.rosters

C10_Witness ==
    \E t \in Tasks :
        /\ Done(t) /\ tasks[t].kind = "manage" /\ tasks[t].out = "NotFound"
        /\ \E r \in bookings : r.id = tasks[t].n /\ r.user_id # tasks[t].user

\* a complete or cancel whose roster rewrite failed after the row was deleted
RewriteFailed(t) == Done(t) /\ tasks[t].kind = "manage" /\ tasks[t].fault

\* the row the complete or cancel of slot t addressed, as it was before
ManagedRows(t) ==
    {r \in tasks[t].pre.bookings : r.id = tasks[t].n /\ r.user_id = tasks[t].user}

\* C11: when the roster rewrite of manageBooking fails after the booking row was
\* deleted and committed, the row stays deleted: the table is the table before
\* the action without that row, and no row with that id is in it.
C11_DeletionNotRolledBack ==
    \A t \in Tasks :
        RewriteFailed(t) =>
            /\ ManagedRows(t) # {}
            /\ bookings = tasks[t].pre.bookings \ ManagedRows(t)
            /\ \A r \in bookings : r.id # tasks[t].n

C11_Witness ==
    \E t \in Tasks :
        /\ RewriteFailed(t)
        /\ \E r \in tasks[t].pre.bookings : r.id = tasks[t].n /\ r \notin bookings
        /\ rosters = tasks[t].pre.rosters

\* C12: when the roster rewrite of manageBooking fails after the booking row was
\* deleted, the user still gets the Completed or Cancelled result, not an error.
C12_RewriteFailureStillSuccess ==
    \A t \in Tasks :
        RewriteFailed(t) => tasks[t].out \in {"Completed", "Cancelled"}

\* a /start that has returned
Started(t) == Done(t) /\ tasks[t].kind = "start"

\* the rows of table us for telegram_id id
UserRows(us, id) == {r \in us : r.telegram_id = id}

\* C13: registerUser is insert-or-ignore: a /start of a user who has a row leaves
\* the table as it was, so of two calls with different nicknames the first
\* nickname stays; a /start of a new user adds the row with the given nickname;
\* either way there is exactly one row for the telegram_id and no error.
C13_RegisterKeepsFirstNickname ==
    \A t \in Tasks :
        Started(t) =>
            /\ tasks[t].out = "Welcome"
            /\ Cardinality(UserRows(users, tasks[t].user)) = 1
            /\ IF UserRows(tasks[t].pre.users, tasks[t].user) # {}
               THEN users = tasks[t].pre.users
               ELSE users = tasks[t].pre.users \cup
                               {[telegram_id |-> tasks[t].user, nickname |-> tasks[t].nick]}

C13_Witness ==
    \E t \in Tasks :
        /\ Started(t)
        /\ \E r \in tasks[t].pre.users :
               r.telegram_id = tasks[t].user /\ r.nickname # tasks[t].nick
        /\ \A r \in users : r.telegram_id = tasks[t].user => r.nickname # tasks[t].nick

\* C17: a user row, once stored, is never changed or removed: from the moment a
\* handler of any kind begins (a repeated /start, a booking, a complete or cancel,
\* a return to the menu, the admin listing), every row that was in table users is
\* still in it, unaltered.
C17_UserRowsKept ==
    \A t \in Tasks :
        tasks[t].pc # "idle" => tasks[t].pre.users \subseteq users

C17_Witness ==
    \E t \in Tasks :
        /\ Done(t) /\ tasks[t].kind = "manage"
        /\ tasks[t].out \in {"Completed", "Cancelled"}
        /\ UserRows(tasks[t].pre.users, tasks[t].user) # {}
        /\ users = tasks[t].pre.users

\* a "my lectures" request that has been answered
Listed(t) == Done(t) /\ tasks[t].kind = "my" /\ ~tasks[t].fault

\* the live bookings of the user of slot t when the handler began
OwnRows(t) == {r \in tasks[t].pre.bookings : r.user_id = tasks[t].user}

Viewed(t) == tasks[t].kind = "dir" /\ tasks[t].pc = "show_update"

\* C15: the availability view of direction D has one entry per roster line, in
\* roster order with its 1-based index, marked booked exactly when a live row
\* (D, lecture) exists at the time of the query; producing it changes neither the
\* bookings table nor the rosters.
C15_AvailabilityView ==
    \A t \in Tasks :
        /\ Viewed(t) =>
               LET roster == tasks[t].pre.rosters[tasks[t].dir]
                   view == tasks[t].result
               IN  /\ Len(view) = Len(roster)
                   /\ \A i \in 1..Len(roster) :
                          /\ view[i].idx = i
                          /\ view[i].lecture = roster[i]
                          /\ view[i].booked <=> Rows(bookings, tasks[t].dir, roster[i]) # {}
        /\ (tasks[t].kind = "dir" /\ tasks[t].pc # "idle") =>
               /\ bookings = tasks[t].pre.bookings
               /\ rosters = tasks[t].pre.rosters

C15_Witness ==
    \E t \in Tasks :
        /\ Viewed(t)
        /\ Len(tasks[t].result) = 2
        /\ tasks[t].result[1].booked
        /\ ~tasks[t].result[2].booked

\* the lines without the first one that equals l
RECURSIVE RemoveFirst(_, _)
RemoveFirst(lines, l) ==
    IF lines = <<>> THEN <<>>
    ELSE IF Head(lines) = l THEN Tail(lines)
    ELSE <<Head(lines)>> \o RemoveFirst(Tail(lines), l)

\* C16: removeLectureLine(direction, lectureName) leaves the roster without the
\* first line equal to lectureName, every other line (later duplicates included)
\* kept in order, and leaves the roster as it was when no line matches.
C16_RemovesFirstMatchOnly ==
    \A t \in Tasks :
        (Done(t) /\ tasks[t].kind = "manage" /\ tasks[t].out \in {"Completed", "Cancelled"}) =>
            rosters[tasks[t].dir] = RemoveFirst(tasks[t].pre.rosters[tasks[t].dir], tasks[t].sel)

\* the handler of slot t has ended on a failure
Failed(t) ==
    /\ Done(t)
    /\ \/ tasks[t].fault
       \/ tasks[t].out \in {"NotFound", "InvalidSelection", "Conflict"}

\* the rows of b that belong to users other than u
RowsOfOthers(b, u) == {r \in b : r.user_id # u}

\* C18: every failure met while one user's event is handled (NotFound,
\* InvalidSelection, Conflict, a store or file error) is caught in the handler and
\* answered to that user, no handler ends with an unhandled exception, and the
\* bookings of the other users stay as they were.
C18_FailuresCaughtAndAnswered ==
    \A t \in Tasks :
        Failed(t) =>
            /\ tasks[t].out # "Unhandled"
            /\ RowsOfOthers(bookings, tasks[t].user) =
                   RowsOfOthers(tasks[t].pre.bookings, tasks[t].user)

\* the content c without its leading and trailing whitespace: the part from the
\* first to the last character that is not whitespace
Trimmed(c) ==
    LET solid == {i \in 1..Len(c) : c[i] \notin Whitespace}
    IN  IF solid = {} THEN <<>>
        ELSE SubSeq(c, CHOOSE i \in solid : \A j \in solid : i <= j,
                       CHOOSE i \in solid : \A j \in solid : i >= j)

\* get_book_link was called for the request of slot t and has returned or raised
LinkAsked(t) == Done(t) /\ tasks[t].kind = "book" /\ tasks[t].out # "Ignored"

\* C19: getBookLink(name) fails with NotFound when books/<name>.txt does not
\* exist, and otherwise returns "https://" followed by the trimmed content of the
\* file, whatever an earlier call for the name returned.
C19_BookLink ==
    \A t \in Tasks :
        LinkAsked(t) =>
            LET file == tasks[t].pre.files.books[tasks[t].name]
            IN  IF file.exists
                THEN /\ tasks[t].out = "Link"
                     /\ tasks[t].result = <<"https://">> \o Trimmed(file.content)
                ELSE tasks[t].out = "NotFound"

C19_Witness ==
    \E t \in Tasks :
        /\ LinkAsked(t)
        /\ tasks[t].out = "Link"
        /\ tasks[t].pre.missed = tasks[t].name
        /\ Len(tasks[t].result) < 1 + Len(tasks[t].pre.files.books[tasks[t].name].content)

\* get_useful_info was called for the request of slot t and has returned or raised
InfoAsked(t) == Done(t) /\ tasks[t].kind = "info" /\ tasks[t].out # "Ignored"

\* C20: getInfo(name) returns the text content when <name>.txt exists, whether or
\* not <name>.pdf exists too, the path of the PDF when only <name>.pdf exists, and
\* fails with NotFound when neither exists.
C20_InfoPrefersText ==
    \A t \in Tasks :
        InfoAsked(t) =>
            LET txt == tasks[t].pre.files.txt[tasks[t].name]
                pdf == tasks[t].pre.files.pdf[tasks[t].name]
            IN  /\ txt.exists =>
                       /\ tasks[t].out = "Text"
                       /\ tasks[t].result = <<"text", Trimmed(txt.content)>>
                /\ (~txt.exists /\ pdf) =>
                       /\ tasks[t].out = "Document"
                       /\ tasks[t].result = <<"pdf", <<"useful_info/", tasks[t].name, ".pdf">>>>
                /\ (~txt.exists /\ ~pdf) => tasks[t].out = "NotFound"

C20_Witness ==
    \E t \in Tasks :
        /\ InfoAsked(t)
        /\ tasks[t].out = "Text"
        /\ tasks[t].pre.files.pdf[tasks[t].name]

\* C21: listCategories(kind) returns the base names of the files with an accepted
\* extension that are in the category directory at the time of the call, so a
\* file added or removed between two calls is reflected by the second call.
C21_ListingIsCurrent ==
    \A t \in Tasks :
        /\ (Done(t) /\ tasks[t].kind = "books") =>
               tasks[t].names = {b \in BookNames : tasks[t].pre.files.books[b].exists}
        /\ (Done(t) /\ tasks[t].kind = "infos") =>
               tasks[t].names = {i \in InfoNames : \/ tasks[t].pre.files.txt[i].exists
                                                   \/ tasks[t].pre.files.pdf[i]}

\* a direction name sent by a user who was in AwaitingDirection has been handled
DirectionChosen(t) ==
    /\ Done(t) /\ tasks[t].kind = "dir"
    /\ tasks[t].pre.fsm.state = waiting_for_direction

\* C22: when a user in AwaitingDirection selects a direction whose roster file
\* exists, the user moves to AwaitingLectureNumber with that direction as the
\* pending one; when the roster file no longer exists the outcome is NotFound and
\* the user's state and pending direction stay as they were.
C22_DirectionSelected ==
    \A t \in Tasks :
        DirectionChosen(t) =>
            IF tasks[t].pre.files.lections[tasks[t].dir]
            THEN /\ tasks[t].out = "Shown"
                 /\ fsm[tasks[t].user] = [state |-> waiting_for_lecture, dir |-> tasks[t].dir]
            ELSE /\ tasks[t].out = "NotFound"
                 /\ fsm[tasks[t].user] = tasks[t].pre.fsm

C22_Witness ==
    \E t \in Tasks :
        /\ DirectionChosen(t)
        /\ ~files.lections[tasks[t].dir]
        /\ tasks[t].out = "NotFound"
        /\ fsm[tasks[t].user].state = waiting_for_direction

\* C23: when a user in AwaitingLectureNumber{direction} submits a number and the
\* roster file of the direction has disappeared, the outcome is NotFound, no
\* booking row is inserted, and the user's state and pending direction are as
\* they were.
C23_RosterGoneOnBooking ==
    \A t \in Tasks :
        (/\ Attempt(t) /\ WasAwaitingLecture(t)
         /\ ~tasks[t].pre.files.lections[tasks[t].pre.fsm.dir]) =>
            /\ tasks[t].out = "NotFound"
            /\ bookings = tasks[t].pre.bookings
            /\ fsm[tasks[t].user] = tasks[t].pre.fsm

C23_Witness ==
    \E t \in Tasks :
        /\ Attempt(t) /\ WasAwaitingLecture(t)
        /\ ~files.lections[tasks[t].dir]
        /\ tasks[t].out = "NotFound"
        /\ fsm[tasks[t].user] = [state |-> waiting_for_lecture, dir |-> tasks[t].dir]

\* a complete or cancel that removed a roster line has returned
Removed(t) ==
    /\ Done(t) /\ tasks[t].kind = "manage" /\ ~tasks[t].fault
    /\ tasks[t].out \in {"Completed", "Cancelled"}

\* C24: while a user is in AwaitingLectureNumber{direction}, that is between the
\* moment the roster is shown and the moment the number is submitted, the lecture
\* at each position of the roster of the direction stays the same, also when
\* another user completes or cancels a booking of the direction in between.
C24_PositionsStable ==
    \A t \in Tasks :
        Removed(t) =>
            \A u \in Users \ {tasks[t].user} :
                fsm[u] = [state |-> waiting_for_lecture, dir |-> tasks[t].dir] =>
                    LET shown == tasks[t].pre.rosters[tasks[t].dir]
                        now == rosters[tasks[t].dir]
                    IN  \A n \in 1..Len(shown) :
                            shown[n] # tasks[t].sel =>
                                n <= Len(now) /\ now[n] = shown[n]

\* a direction name sent by a user who was Idle has been handled
DirectionWhileIdle(t) ==
    /\ Done(t) /\ tasks[t].kind = "dir"
    /\ tasks[t].pre.fsm = ClearedFsm

C25_RemovedLecturesStayRemoved ==
    Quiescent =>
        \A t \in Tasks :
            Removed(t) =>
                \A i \in 1..Len(rosters[tasks[t].dir]) :
                    rosters[tasks[t].dir][i] # tasks[t].sel

\* C26: of the manageBooking calls of one user for one booking id at most one
\* returns the Completed or Cancelled result, and every other one fails with
\* NotFound.
C26_OneSuccessPerBooking ==
    \A t1 \in Tasks, t2 \in Tasks :
        (/\ t1 # t2
         /\ Done(t1) /\ tasks[t1].kind = "manage"
         /\ Done(t2) /\ tasks[t2].kind = "manage"
         /\ tasks[t1].n = tasks[t2].n /\ tasks[t1].user = tasks[t2].user) =>
            /\ ~(Removed(t1) /\ Removed(t2))
            /\ tasks[t1].out \in {"Completed", "Cancelled", "NotFound"}

\* C27: manageBooking succeeds exactly when the caller owns a row with the id,
\* whatever the caller's conversation state, and in every case leaves the
\* conversation state and pending direction of every user and every booking row
\* other than the targeted one as they were.
C27_ManageTouchesOneRowOnly ==
    \A t \in Tasks :
        (tasks[t].kind = "manage" /\ tasks[t].pc # "idle") =>
            /\ fsm = tasks[t].pre.fsms
            /\ bookings \ ManagedRows(t) = tasks[t].pre.bookings \ ManagedRows(t)
            /\ (Done(t) /\ ~tasks[t].fault) =>
                   (tasks[t].out = "NotFound" <=> ManagedRows(t) = {})

C27_Witness ==
    \E t \in Tasks :
        /\ Removed(t)
        /\ tasks[t].pre.fsm.state = waiting_for_lecture
        /\ fsm[tasks[t].user] = tasks[t].pre.fsm
        /\ bookings # {}

\* C28: in every reachable state the user_id of every live booking row is the
\* telegram_id of some row of table users: nobody books without a /start.
C28_BookingsOfRegisteredUsers ==
    \A r \in bookings : \E w \in users : w.telegram_id = r.user_id

\* C30: the listing of all users' bookings is answered only to users whose id is
\* in SPECIAL_USERS, whatever the text of the message.
C30_ListingForSpecialUsersOnly ==
    \A t \in Tasks :
        (Done(t) /\ tasks[t].kind = "admin" /\ tasks[t].out = "AllBookings") =>
            tasks[t].user \in SPECIAL_USERS

\* ---------------------------------------------------------------- C31
\* the message handlers that have run, or are running, for an administrator
SpecialTasks == {t \in Tasks : tasks[t].kind # "idle" /\ tasks[t].user \in SPECIAL_USERS}

\* C31: handlers are tried in registration order and the first match
\* handles the message, so a message of a user in SPECIAL_USERS is handled
\* by start_handler when it is the /start command and by
\* admin_panel_handler otherwise; no administrator is ever in
\* waiting_for_direction, and no booking belongs to one.
C31_SpecialUserAlwaysAdminPanel ==
    /\ \A t \in SpecialTasks :
          /\ tasks[t].kind \in {"start", "admin"}
          /\ TextOf(tasks[t]) # "start" => tasks[t].kind = "admin"
    /\ \A u \in SPECIAL_USERS : fsm[u].state # waiting_for_direction
    /\ \A r \in bookings : r.user_id \notin SPECIAL_USERS

\* an administrator pressed "available lectures" and got the admin listing,
\* while an ordinary user holds a booking
C31_Witness ==
    \E t \in SpecialTasks :
        /\ Done(t)
        /\ tasks[t].kind = "admin"
        /\ tasks[t].text = "open"
        /\ bookings # {}

\* ---------------------------------------------------------------- C32, C33
\* the positions between acquire and release of get_connection
Holding == {"show_select", "book_select", "book_insert", "manage_select", "manage_delete",
            "my_select", "register_insert", "admin_select"}

\* the positions at await self.pool.get()
Acquiring == {"show_acquire", "book_acquire", "manage_acquire", "my_acquire",
              "register_acquire", "admin_acquire"}

Held == Cardinality({t \in Tasks : tasks[t].pc \in Holding})

Waiting(t) == tasks[t].pc \in Acquiring

\* C32: between init_pool and close_pool the idle connections and the
\* connections held by handlers add up to pool_size, whichever way a handler
\* leaves get_connection: normally, by Conflict, by NotFound or by an error
\* of the store.
C32_IdlePlusHeldIsPoolSize == pool + Held = capacity

\* a booking left get_connection by Conflict, and the connection it gave
\* back is now held by another handler
C32_Witness ==
    \E t, h \in Tasks :
        /\ Done(t)
        /\ tasks[t].kind = "num"
        /\ tasks[t].out = "Conflict"
        /\ tasks[h].pc \in Holding
        /\ pool = 0

\* C33: no handler asks for a second connection while it holds one, so with
\* more handlers in flight than connections, and every ready handler being
\* run, a handler waiting in acquire gets a connection and finishes.
C33_WaitingHandlerFinishes == \A t \in Tasks : Waiting(t) ~> Done(t)

\* a handler waits for a connection while another one holds the only one
C33_Witness ==
    \E t, h \in Tasks :
        /\ Waiting(t)
        /\ tasks[h].pc \in Holding
        /\ pool = 0
====
